---- MODULE Spec2Model ----
(***************************************************************************)
(* Model of the WebSocket relay of world-racers                            *)
(* (src/backend/api/src/api/ws.rs): the handshake (ws_handler), the        *)
(* per-connection task (handle_socket) with its outbound task (send_task)  *)
(* and its forwarding tasks (party_rx_task), the shared registry           *)
(* party_channels, the shared index user_parties, and the party membership *)
(* endpoints of parties.rs that the relay reads through                    *)
(* verify_user_in_party.                                                   *)
(*                                                                         *)
(* A tokio broadcast channel is modelled by one buffer per Receiver: a     *)
(* send appends the message to the buffer of every live Receiver of the    *)
(* channel, and a Receiver that already holds the channel's capacity of    *)
(* unread messages becomes lagged (its next recv returns Err(Lagged)).     *)
(* A channel is named by the Connect that created it: <<party, session,    *)
(* ordinal of that session's join>>.                                       *)
(*                                                                         *)
(* The handler of a connection is cut where it awaits something another    *)
(* task can change (the store, its own full queue) and where it drops the  *)
(* registry lock between two uses; code between two such points is one     *)
(* action.                                                                 *)
(***************************************************************************)
EXTENDS Integers, Sequences, FiniteSets, TLC

\* ------------------------------------------------------------- bounds
\* connections a run of Spec opens; a run of SpecRace opens one more
NSessions == 2
NUsers == 2
NParties == 2
\* joins (get-or-create calls) one connection may make
MaxConnects == 2
\* joins all connections of a run may make
MaxJoins == 3
\* Update messages published in one run
MaxUpdates == 1
\* environment events of a run: a membership change, a store error, a failed
\* socket write, a try_lock that finds the index locked
MaxEnvEvents == 1
\* capacity of the per-connection mpsc queue, mpsc::channel(100)
OutCap == 1
\* capacity of a party's broadcast channel, broadcast::channel(100)
BcastCap == 1

Sessions == 1..(NSessions + 1)
Users == 1..NUsers
Parties == 1..NParties
\* the user whose token the client of connection s presents
UserOf(s) == IF s = 1 THEN 1 ELSE NUsers
\* a token verify_token rejects
BadToken == 0
\* the owner_id column of party p
OwnerOf(p) == ((p - 1) % NUsers) + 1

None == 0
NoChan == <<0, 0, 0>>
DeadTask == [alive |-> FALSE, chan |-> NoChan, buf |-> <<>>, lagged |-> FALSE]

VARIABLES
    db_parties,             \* rows of table party (ids)
    db_members,             \* rows of table user_party: <<user, party>>
    env_budget,             \* environment events the run may still see
    party_channels,         \* AppState.party_channels: party -> Sender
    user_parties,           \* AppState.user_parties: user -> party
    party_channels_lock,    \* the connection holding the Mutex of party_channels
    user_parties_lock,      \* the connection holding the Mutex of user_parties
    pc,                     \* where each connection's handler stands
    authenticated_user_id,  \* handle_socket's authenticated_user_id
    party_id,               \* handle_socket's local party_id
    party_tx,               \* handle_socket's local party_tx
    party_rx_task,          \* handle_socket's local party_rx_task (a JoinHandle)
    joins,                  \* how many forwarding tasks the connection has spawned
    tasks,                  \* the forwarding tasks, by connection and ordinal
    outq,                   \* the mpsc queue tx -> rx of each connection
    rx_open,                \* send_task still owns a live rx
    updates                 \* Update messages published so far

vars == <<db_parties, db_members, env_budget, party_channels,
          user_parties, party_channels_lock, user_parties_lock, pc, authenticated_user_id, party_id, party_tx,
          party_rx_task, joins, tasks, outq, rx_open, updates>>

dbVars == <<db_parties, db_members>>
lockVars == <<party_channels_lock, user_parties_lock>>
sessVars == <<pc, authenticated_user_id, party_id, party_tx, party_rx_task, joins>>

\* ------------------------------------------------------------ messages
\* src (the publishing connection), chan (the channel published on) and held
\* (whether, when it was published, the Receiver that got this copy belonged
\* to the forwarding task its connection then held in party_rx_task) are not
\* on the wire: they record where and when a message came from
Msg(t, u, s, c, n) ==
    [type |-> t, uid |-> u, src |-> s, chan |-> c, n |-> n, held |-> TRUE]

\* what the client reads of a message
Wire(m) == [type |-> m.type, uid |-> m.uid, n |-> m.n]

\* the two error replies: 1 "User ID in message does not match authenticated
\* user", 2 "You are not a member of this party"
ErrorMsg(s, code) == Msg("Error", 0, s, NoChan, code)

ChanParty(c) == c[1]

\* ----------------------------------------------------- broadcast channel
TaskIds == Sessions \X (1..MaxConnects)

\* Sender::receiver_count(): the live Receivers of channel c
ReceiverCount(T, c) ==
    Cardinality({t \in TaskIds : T[t[1]][t[2]].alive /\ T[t[1]][t[2]].chan = c})

\* the Sender clones of channel c: the registry's and each handler's party_tx
SenderCount(c) ==
    Cardinality({p \in Parties : party_channels[p] = c})
    + Cardinality({s \in Sessions : party_tx[s] = c})

\* a broadcast that leaves out the Receivers of the publishing connection
BroadcastSendNoEcho(T, c, m) ==
    [s \in Sessions |-> [k \in 1..MaxConnects |->
        IF T[s][k].alive /\ T[s][k].chan = c /\ s # m.src
        THEN IF Len(T[s][k].buf) < BcastCap
             THEN [T[s][k] EXCEPT !.buf = Append(@, [m EXCEPT !.held = (party_rx_task[s] = k)])]
             ELSE [T[s][k] EXCEPT !.lagged = TRUE]
        ELSE T[s][k]]]

\* Sender::send(m) on channel c: every live Receiver of c gets m; one that is
\* a full capacity behind loses its oldest message and is lagged
BroadcastSend(T, c, m) ==
    [s \in Sessions |-> [k \in 1..MaxConnects |->
        IF T[s][k].alive /\ T[s][k].chan = c
        THEN IF Len(T[s][k].buf) < BcastCap
             THEN [T[s][k] EXCEPT !.buf = Append(@, [m EXCEPT !.held = (party_rx_task[s] = k)])]
             ELSE [T[s][k] EXCEPT !.lagged = TRUE]
        ELSE T[s][k]]]

\* Sender::subscribe() and tokio::spawn of the forwarding task
Subscribe(T, s, k, c) ==
    [T EXCEPT ![s][k] = [alive |-> TRUE, chan |-> c, buf |-> <<>>, lagged |-> FALSE]]

\* a JoinHandle that is dropped instead of aborted: the task runs on
AbortTaskDetach(T, s, k) == T

\* JoinHandle::abort() on the handle held in party_rx_task
AbortTask(T, s, k) ==
    IF k = None THEN T ELSE [T EXCEPT ![s][k] = DeadTask]

\* ----------------------------------------------------------- data store
\* a membership check that only looks the party up
verify_party_exists(u, p) == p \in db_parties

\* verify_user_in_party: the party exists and the user has a row in it
verify_user_in_party(u, p) ==
    /\ p \in db_parties
    /\ <<u, p>> \in db_members

InitState ==
    /\ db_parties = Parties
    /\ db_members = {<<OwnerOf(p), p>> : p \in Parties} \cup {<<NUsers, 1>>}
    /\ party_channels = [p \in Parties |-> NoChan]
    /\ user_parties = [u \in Users |-> None]
    /\ party_channels_lock = None
    /\ user_parties_lock = None
    /\ pc = [s \in Sessions |-> "idle"]
    /\ authenticated_user_id = [s \in Sessions |-> None]
    /\ party_id = [s \in Sessions |-> None]
    /\ party_tx = [s \in Sessions |-> NoChan]
    /\ party_rx_task = [s \in Sessions |-> None]
    /\ joins = [s \in Sessions |-> 0]
    /\ tasks = [s \in Sessions |-> [k \in 1..MaxConnects |-> DeadTask]]
    /\ outq = [s \in Sessions |-> <<>>]
    /\ rx_open = [s \in Sessions |-> FALSE]
    /\ updates = 0

Init ==
    /\ InitState
    /\ env_budget = MaxEnvEvents

\* an undisturbed environment: no store error, no failed write, no contention
InitRace ==
    /\ InitState
    /\ env_budget = 0

\* ------------------------------------------------- membership endpoints
\* parties.rs join_party: add a user_party row for an existing party
join_party(u, p) ==
    /\ env_budget > 0
    /\ p \in db_parties
    /\ <<u, p>> \notin db_members
    /\ db_members' = db_members \cup {<<u, p>>}
    /\ env_budget' = env_budget - 1
    /\ UNCHANGED <<db_parties, lockVars, party_channels, user_parties, sessVars,
                   tasks, outq, rx_open, updates>>

\* parties.rs leave_party: the owner cannot leave; the row is deleted and
\* nothing of the relay (party_channels, user_parties) is touched
leave_party(u, p) ==
    /\ env_budget > 0
    /\ p \in db_parties
    /\ u # OwnerOf(p)
    /\ <<u, p>> \in db_members
    /\ db_members' = db_members \ {<<u, p>>}
    /\ env_budget' = env_budget - 1
    /\ UNCHANGED <<db_parties, lockVars, party_channels, user_parties, sessVars,
                   tasks, outq, rx_open, updates>>

\* parties.rs disband_party: every row of the party and the party are deleted
disband_party(p) ==
    /\ env_budget > 0
    /\ p \in db_parties
    /\ db_members' = {m \in db_members : m[2] # p}
    /\ db_parties' = db_parties \ {p}
    /\ env_budget' = env_budget - 1
    /\ UNCHANGED <<lockVars, party_channels, user_parties, sessVars, tasks,
                   outq, rx_open, updates>>

\* ------------------------------------------------------------ handshake
\* a handshake that upgrades without looking at the party_id parameter
ws_handlerNoPartyCheck(s, token, qpid) ==
    /\ pc[s] \in {"idle", "unauthorized", "forbidden"}
    /\ IF token = BadToken
       THEN /\ pc' = [pc EXCEPT ![s] = "unauthorized"]
            /\ UNCHANGED <<authenticated_user_id, rx_open>>
       ELSE /\ pc' = [pc EXCEPT ![s] = "recv"]
            /\ authenticated_user_id' = [authenticated_user_id EXCEPT ![s] = token]
            /\ rx_open' = [rx_open EXCEPT ![s] = TRUE]
    /\ UNCHANGED <<dbVars, lockVars, env_budget, party_channels, user_parties,
                   party_id, party_tx, party_rx_task, joins, tasks, outq, updates>>

\* ws_handler: verify_token rejects BadToken, any other token carries
\* sub = token; qpid is the optional party_id query parameter
ws_handler(s, token, qpid) ==
    /\ pc[s] \in {"idle", "unauthorized", "forbidden"}
    /\ IF token = BadToken
       THEN /\ pc' = [pc EXCEPT ![s] = "unauthorized"]
            /\ UNCHANGED <<authenticated_user_id, rx_open>>
       ELSE IF qpid # None /\ ~verify_user_in_party(token, qpid)
       THEN /\ pc' = [pc EXCEPT ![s] = "forbidden"]
            /\ UNCHANGED <<authenticated_user_id, rx_open>>
       ELSE /\ pc' = [pc EXCEPT ![s] = "recv"]
            /\ authenticated_user_id' = [authenticated_user_id EXCEPT ![s] = token]
            /\ rx_open' = [rx_open EXCEPT ![s] = TRUE]
    /\ UNCHANGED <<dbVars, lockVars, env_budget, party_channels, user_parties,
                   party_id, party_tx, party_rx_task, joins, tasks, outq, updates>>

\* ------------------------------------------------- connection teardown
\* std Mutex::try_lock on user_parties can only fail while another
\* connection's handler is running code that takes that lock
IndexContended(s) ==
    /\ env_budget > 0
    /\ \E o \in Sessions \ {s} : pc[o] \in {"recv", "reply_break"}

\* lines 286-323 of handle_socket; locked says whether try_lock got the index
Cleanup(s, locked) ==
    LET uid == authenticated_user_id[s]
        pid == party_id[s]
        ch == party_tx[s]
        notified == IF pid # None /\ ch # NoChan
                    THEN BroadcastSend(tasks, ch, Msg("Disconnect", uid, s, ch, 0))
                    ELSE tasks
        empty == /\ pid # None
                 /\ ch # NoChan
                 /\ party_channels[pid] # NoChan
                 /\ ReceiverCount(notified, party_channels[pid]) = 0
    IN  /\ user_parties' = IF locked THEN [user_parties EXCEPT ![uid] = None]
                                     ELSE user_parties
        /\ env_budget' = IF locked THEN env_budget ELSE env_budget - 1
        /\ IF empty
           THEN \* the lock is dropped between the check and the removal
                /\ pc' = [pc EXCEPT ![s] = "remove"]
                /\ tasks' = notified
                /\ UNCHANGED <<party_id, party_tx, party_rx_task, outq, rx_open>>
           ELSE /\ pc' = [pc EXCEPT ![s] = "closed"]
                /\ tasks' = AbortTask(notified, s, party_rx_task[s])
                /\ party_id' = [party_id EXCEPT ![s] = None]
                /\ party_tx' = [party_tx EXCEPT ![s] = NoChan]
                /\ party_rx_task' = [party_rx_task EXCEPT ![s] = None]
                /\ outq' = [outq EXCEPT ![s] = <<>>]
                /\ rx_open' = [rx_open EXCEPT ![s] = FALSE]
        /\ UNCHANGED <<dbVars, lockVars, party_channels, authenticated_user_id,
                       joins, updates>>

\* lines 308-323: the second lock, the removal, then the two aborts
CleanupRemove(s) ==
    /\ pc[s] = "remove"
    /\ party_channels' = [party_channels EXCEPT ![party_id[s]] = NoChan]
    /\ pc' = [pc EXCEPT ![s] = "closed"]
    /\ tasks' = AbortTask(tasks, s, party_rx_task[s])
    /\ party_id' = [party_id EXCEPT ![s] = None]
    /\ party_tx' = [party_tx EXCEPT ![s] = NoChan]
    /\ party_rx_task' = [party_rx_task EXCEPT ![s] = None]
    /\ outq' = [outq EXCEPT ![s] = <<>>]
    /\ rx_open' = [rx_open EXCEPT ![s] = FALSE]
    /\ UNCHANGED <<dbVars, lockVars, env_budget, user_parties,
                   authenticated_user_id, joins, updates>>

\* an inbound loop whose end returns from the handler without the cleanup
TransportCloseNoCleanup(s) ==
    /\ pc[s] = "recv"
    /\ pc' = [pc EXCEPT ![s] = "closed"]
    /\ outq' = [outq EXCEPT ![s] = <<>>]
    /\ rx_open' = [rx_open EXCEPT ![s] = FALSE]
    /\ UNCHANGED <<dbVars, lockVars, env_budget, party_channels, user_parties,
                   authenticated_user_id, party_id, party_tx, party_rx_task,
                   joins, tasks, updates>>

\* the inbound loop ends: receiver.next() gives None or Some(Err)
TransportClose(s) ==
    /\ pc[s] = "recv"
    /\ \E locked \in BOOLEAN :
        /\ locked \/ IndexContended(s)
        /\ Cleanup(s, locked)

\* a Disconnect branch that ends the connection whatever id the message carries
DisconnectAnyId(s, uid) ==
    /\ pc[s] = "recv"
    /\ \E locked \in BOOLEAN :
        /\ locked \/ IndexContended(s)
        /\ Cleanup(s, locked)

\* Disconnect{user_id}, lines 266-278: ignored unless it carries the
\* authenticated id; then try_lock/remove (lines 269-274), break, and the
\* cleanup, whose try_lock removes the same key: the entry stays only if both
\* find the index locked
Disconnect(s, uid) ==
    /\ pc[s] = "recv"
    /\ IF uid # authenticated_user_id[s]
       THEN UNCHANGED vars
       ELSE \E locked \in BOOLEAN :
               /\ locked \/ IndexContended(s)
               /\ Cleanup(s, locked)

\* ------------------------------------------------------ message router
RECURSIVE SumJoins(_)
SumJoins(n) == IF n = 0 THEN 0 ELSE joins[n] + SumJoins(n - 1)

\* the joins begun so far, by all connections
JoinsStarted ==
    SumJoins(NSessions + 1) + Cardinality({s \in Sessions : pc[s] = "lookup"})

\* Connect{user_id: uid, party_id: pid}, lines 154-195 and 228-239: the
\* identity check, party_id = Some(pid), the membership check (dbOk = FALSE is
\* a store error, which verify_user_in_party reports as "not a member"), the
\* index insert and the registry's get-or-create
Connect(s, uid, pid) ==
    /\ pc[s] = "recv"
    /\ IF uid # authenticated_user_id[s]
       THEN /\ pc' = [pc EXCEPT ![s] = "reply_continue"]
            /\ UNCHANGED <<party_id, party_tx, party_channels, user_parties, env_budget>>
       ELSE \E dbOk \in BOOLEAN :
            /\ dbOk \/ env_budget > 0
            /\ env_budget' = IF dbOk THEN env_budget ELSE env_budget - 1
            /\ IF dbOk /\ verify_user_in_party(uid, pid)
               THEN LET ch == IF party_channels[pid] = NoChan
                              THEN <<pid, s, joins[s] + 1>>
                              ELSE party_channels[pid]
                    IN  /\ joins[s] < MaxConnects
                        /\ JoinsStarted < MaxJoins
                        /\ party_id' = [party_id EXCEPT ![s] = pid]
                        /\ user_parties' = [user_parties EXCEPT ![uid] = pid]
                        /\ party_channels' = [party_channels EXCEPT ![pid] = ch]
                        /\ party_tx' = [party_tx EXCEPT ![s] = ch]
                        /\ pc' = [pc EXCEPT ![s] = "lookup"]
               ELSE /\ party_id' = [party_id EXCEPT ![s] = pid]
                    /\ pc' = [pc EXCEPT ![s] = "reply_break"]
                    /\ UNCHANGED <<party_tx, party_channels, user_parties>>
    /\ UNCHANGED <<dbVars, lockVars, authenticated_user_id, party_rx_task, joins,
                   tasks, outq, rx_open, updates>>

\* lines 197-227, after the await of User::find_by_id: the NewPartyMember
\* notification, subscribe(), and the spawn whose JoinHandle overwrites
\* party_rx_task (dropping a JoinHandle detaches the task, it does not stop it)
ConnectJoin(s) ==
    /\ pc[s] = "lookup"
    /\ LET uid == authenticated_user_id[s]
           ch == party_tx[s]
           k == joins[s] + 1
       IN  /\ tasks' = Subscribe(
                 BroadcastSend(tasks, ch, Msg("NewPartyMember", uid, s, ch, 0)),
                 s, k, ch)
           /\ party_rx_task' = [party_rx_task EXCEPT ![s] = k]
           /\ joins' = [joins EXCEPT ![s] = k]
           /\ pc' = [pc EXCEPT ![s] = "recv"]
    /\ UNCHANGED <<dbVars, lockVars, env_budget, party_channels, user_parties,
                   authenticated_user_id, party_id, party_tx, outq, rx_open, updates>>

\* lines 200-201: the lookup fails (a store error) and unwrap panics; the
\* handler unwinds without the cleanup, dropping tx, party_tx and its
\* JoinHandles (send_task and the forwarding tasks are detached, not stopped)
ConnectPanic(s) ==
    /\ pc[s] = "lookup"
    /\ env_budget > 0
    /\ env_budget' = env_budget - 1
    /\ pc' = [pc EXCEPT ![s] = "panicked"]
    /\ party_id' = [party_id EXCEPT ![s] = None]
    /\ party_tx' = [party_tx EXCEPT ![s] = NoChan]
    /\ party_rx_task' = [party_rx_task EXCEPT ![s] = None]
    /\ UNCHANGED <<dbVars, lockVars, party_channels, user_parties,
                   authenticated_user_id, joins, tasks, outq, rx_open, updates>>

\* tx.send(error).await of lines 160-173 and 235-239: waits while the queue is
\* full, fails (logged only) when rx is gone; then continue, or break into the
\* cleanup
ReplyEnqueue(s) ==
    /\ pc[s] \in {"reply_continue", "reply_break"}
    /\ ~rx_open[s] \/ Len(outq[s]) < OutCap
    /\ IF pc[s] = "reply_continue"
       THEN /\ outq' = [outq EXCEPT ![s] =
                           IF rx_open[s] THEN Append(@, ErrorMsg(s, 1)) ELSE @]
            /\ pc' = [pc EXCEPT ![s] = "recv"]
            /\ UNCHANGED <<dbVars, lockVars, env_budget, party_channels, user_parties,
                           authenticated_user_id, party_id, party_tx,
                           party_rx_task, joins, tasks, rx_open, updates>>
       ELSE \* the reply is dropped with the queue when the cleanup aborts send_task
            \E locked \in BOOLEAN :
                /\ locked \/ IndexContended(s)
                /\ Cleanup(s, locked)

\* an Update branch without the identity check of lines 249-252
UpdateNoIdentityCheck(s, uid) ==
    /\ pc[s] = "recv"
    /\ IF party_id[s] = None \/ party_tx[s] = NoChan
       THEN UNCHANGED <<tasks, updates>>
       ELSE /\ updates < MaxUpdates
            /\ tasks' = BroadcastSend(tasks, party_tx[s],
                            Msg("Update", uid, s, party_tx[s], updates + 1))
            /\ updates' = updates + 1
    /\ UNCHANGED <<dbVars, lockVars, env_budget, party_channels, user_parties,
                   sessVars, outq, rx_open>>

\* an Update branch without the joined guard of lines 244-247, publishing on
\* the registry's channel of a party the user is a member of
UpdateNoJoinGuard(s, uid) ==
    /\ pc[s] = "recv"
    /\ IF uid # authenticated_user_id[s]
       THEN UNCHANGED <<tasks, updates>>
       ELSE /\ updates < MaxUpdates
            /\ \E p \in Parties :
                  /\ verify_user_in_party(uid, p)
                  /\ tasks' = BroadcastSend(tasks, party_channels[p],
                                  Msg("Update", uid, s, party_channels[p], updates + 1))
            /\ updates' = updates + 1
    /\ UNCHANGED <<dbVars, lockVars, env_budget, party_channels, user_parties,
                   sessVars, outq, rx_open>>

\* an Update branch that hands the message to each subscriber's outbound queue
\* itself and so waits while any of those queues is full
UpdateAwaitPeers(s, uid) ==
    /\ pc[s] = "recv"
    /\ IF party_id[s] = None \/ party_tx[s] = NoChan \/ uid # authenticated_user_id[s]
       THEN UNCHANGED <<tasks, updates>>
       ELSE /\ updates < MaxUpdates
            /\ \A o \in Sessions :
                  (\E k \in 1..MaxConnects :
                      tasks[o][k].alive /\ tasks[o][k].chan = party_tx[s])
                  => Len(outq[o]) < OutCap
            /\ tasks' = BroadcastSend(tasks, party_tx[s],
                            Msg("Update", uid, s, party_tx[s], updates + 1))
            /\ updates' = updates + 1
    /\ UNCHANGED <<dbVars, lockVars, env_budget, party_channels, user_parties,
                   sessVars, outq, rx_open>>

\* Update{state}, lines 241-265: dropped unless joined and state.user_id is the
\* authenticated id, else broadcast on party_tx
Update(s, uid) ==
    /\ pc[s] = "recv"
    /\ IF party_id[s] = None \/ party_tx[s] = NoChan \/ uid # authenticated_user_id[s]
       THEN UNCHANGED <<tasks, updates>>
       ELSE /\ updates < MaxUpdates
            /\ tasks' = BroadcastSend(tasks, party_tx[s],
                            Msg("Update", uid, s, party_tx[s], updates + 1))
            /\ updates' = updates + 1
    /\ UNCHANGED <<dbVars, lockVars, env_budget, party_channels, user_parties,
                   sessVars, outq, rx_open>>

\* lines 151-153, 279-281 and 144: NewPartyMember, an unparseable text, a
\* non-text frame
Ignored(s) ==
    /\ pc[s] = "recv"
    /\ UNCHANGED vars

\* ------------------------------------------------------- spawned tasks
\* one iteration of the forwarding task, lines 220-226: recv() from the
\* broadcast Receiver (Err(Lagged) or Err(Closed) end the loop), then
\* tx_clone.send().await (waits while the queue is full, Err ends the loop)
ForwardTask(s, k) ==
    LET t == tasks[s][k]
    IN  /\ t.alive
        /\ IF t.lagged
           THEN /\ tasks' = [tasks EXCEPT ![s][k] = DeadTask]
                /\ UNCHANGED outq
           ELSE IF t.buf # <<>>
           THEN IF ~rx_open[s]
                THEN /\ tasks' = [tasks EXCEPT ![s][k] = DeadTask]
                     /\ UNCHANGED outq
                ELSE /\ Len(outq[s]) < OutCap
                     /\ outq' = [outq EXCEPT ![s] = Append(@, Head(t.buf))]
                     /\ tasks' = [tasks EXCEPT ![s][k].buf = Tail(@)]
           ELSE /\ SenderCount(t.chan) = 0
                /\ tasks' = [tasks EXCEPT ![s][k] = DeadTask]
                /\ UNCHANGED outq
        /\ UNCHANGED <<dbVars, lockVars, env_budget, party_channels, user_parties,
                       sessVars, rx_open, updates>>

\* one iteration of send_task, lines 128-134: rx.recv() then the socket write;
\* a failed write ends the task, dropping rx and what it still queued
SendTask(s, ok) ==
    /\ rx_open[s]
    /\ outq[s] # <<>>
    /\ ok \/ env_budget > 0
    /\ env_budget' = IF ok THEN env_budget ELSE env_budget - 1
    /\ IF ok
       THEN /\ outq' = [outq EXCEPT ![s] = Tail(@)]
            /\ UNCHANGED rx_open
       ELSE /\ outq' = [outq EXCEPT ![s] = <<>>]
            /\ rx_open' = [rx_open EXCEPT ![s] = FALSE]
    /\ UNCHANGED <<dbVars, lockVars, party_channels, user_parties, sessVars, tasks, updates>>

\* rx.recv() gives None: the handler panicked (tx dropped) and no forwarding
\* task holds a tx_clone any more
SendTaskEnd(s) ==
    /\ pc[s] = "panicked"
    /\ rx_open[s]
    /\ outq[s] = <<>>
    /\ \A k \in 1..MaxConnects : ~tasks[s][k].alive
    /\ rx_open' = [rx_open EXCEPT ![s] = FALSE]
    /\ UNCHANGED <<dbVars, lockVars, env_budget, party_channels, user_parties,
                   sessVars, tasks, outq, updates>>

\* ------------------------------------------------------- specification
Next ==
    \/ \E u \in Users, p \in Parties : join_party(u, p)
    \/ \E u \in Users, p \in Parties : leave_party(u, p)
    \/ \E p \in Parties : disband_party(p)
    \/ \E s \in 1..NSessions :
          \E token \in {BadToken, UserOf(s)}, qpid \in Parties \cup {None} :
              ws_handler(s, token, qpid)
    \/ \E s \in Sessions, uid \in Users, pid \in Parties : Connect(s, uid, pid)
    \/ \E s \in Sessions : ConnectJoin(s)
    \/ \E s \in Sessions : ConnectPanic(s)
    \/ \E s \in Sessions : ReplyEnqueue(s)
    \/ \E s \in Sessions, uid \in Users : Update(s, uid)
    \/ \E s \in Sessions : Ignored(s)
    \/ \E s \in Sessions, uid \in Users : Disconnect(s, uid)
    \/ \E s \in Sessions : TransportClose(s)
    \/ \E s \in Sessions : CleanupRemove(s)
    \/ \E s \in Sessions, k \in 1..MaxConnects : ForwardTask(s, k)
    \/ \E s \in Sessions, ok \in BOOLEAN : SendTask(s, ok)
    \/ \E s \in Sessions : SendTaskEnd(s)

Spec == Init /\ [][Next]_vars

\* one connection more than Spec, in an undisturbed environment, and no Update:
\* the interleavings of Connect and teardown of three handlers
NextRace ==
    \/ \E s \in Sessions :
          \E token \in {BadToken, UserOf(s)}, qpid \in Parties \cup {None} :
              ws_handler(s, token, qpid)
    \/ \E s \in Sessions, uid \in Users, pid \in Parties : Connect(s, uid, pid)
    \/ \E s \in Sessions : ConnectJoin(s)
    \/ \E s \in Sessions : ReplyEnqueue(s)
    \/ \E s \in Sessions : Ignored(s)
    \/ \E s \in Sessions, uid \in Users : Disconnect(s, uid)
    \/ \E s \in Sessions : TransportClose(s)
    \/ \E s \in Sessions : CleanupRemove(s)
    \/ \E s \in Sessions, k \in 1..MaxConnects : ForwardTask(s, k)
    \/ \E s \in Sessions, ok \in BOOLEAN : SendTask(s, ok)

SpecRace == InitRace /\ [][NextRace]_vars

\* ------------------------------------------------- reading of the state
\* the handler of connection s runs: upgraded, and neither returned nor panicked
Live(s) == pc[s] \in {"recv", "reply_continue", "reply_break", "lookup", "remove"}

\* connection s has completed a Connect and stands in its inbound loop
Joined(s) ==
    /\ pc[s] \in {"recv", "reply_continue"}
    /\ party_id[s] # None
    /\ party_tx[s] # NoChan
    /\ party_rx_task[s] # None

\* a forwarding task of connection s holds a live Receiver of channel c
SubscribedTo(s, c) ==
    \E k \in 1..MaxConnects : tasks[s][k].alive /\ tasks[s][k].chan = c

\* this step put a message into the Receiver of forwarding task k of s
Received(s, k) == Len(tasks'[s][k].buf) > Len(tasks[s][k].buf)

\* the message that step put there
ReceivedMsg(s, k) == tasks'[s][k].buf[Len(tasks'[s][k].buf)]

\* this step put a message into the outbound queue of connection s
Enqueued(s) == Len(outq'[s]) > Len(outq[s])

\* the message that step put there
EnqueuedMsg(s) == outq'[s][Len(outq'[s])]

\* ------------------------------------------------------------- claims
\* C1: in every reachable state the registry holds an entry for party p if and
\* only if a live connection is subscribed to the channel of that entry; it
\* never holds an entry whose channel has no subscriber.  (A connection that
\* stands between get-or-create and subscribe, or between the emptiness check
\* and the removal, is allowed for.)
C1_RegistryIffSubscribed ==
    \A p \in Parties :
        /\ party_channels[p] # NoChan =>
              \/ \E s \in Sessions : Live(s) /\ SubscribedTo(s, party_channels[p])
              \/ \E s \in Sessions : pc[s] \in {"lookup", "remove"} /\ party_id[s] = p
        /\ \A s \in Sessions :
              (Joined(s) /\ ChanParty(party_tx[s]) = p /\ SubscribedTo(s, party_tx[s]))
                  => party_channels[p] # NoChan

\* C2: when the only connection subscribed to a party's channel terminates
\* (Disconnect or transport close), the registry no longer holds that channel
\* once the connection's cleanup has finished.
C2_LastSubscriberRemovesEntry ==
    [][\A s \in Sessions :
          ( /\ Live(s)
            /\ pc'[s] = "closed"
            /\ party_tx[s] # NoChan
            /\ \A o \in Sessions \ {s} :
                  ~SubscribedTo(o, party_tx[s]) /\ party_tx[o] # party_tx[s] )
          => party_channels'[ChanParty(party_tx[s])] # party_tx[s]]_vars

\* C3: under any interleaving of Connect steps and termination steps there is
\* never more than one live channel for one party: all connections joined to
\* the same party at the same time hold the same channel.
C3_OneChannelPerParty ==
    \A a, b \in Sessions :
        ( /\ Joined(a) /\ pc[a] = "recv"
          /\ Joined(b) /\ pc[b] = "recv"
          /\ ChanParty(party_tx[a]) = ChanParty(party_tx[b]) )
        => party_tx[a] = party_tx[b]

\* C4: if connections a and b are both joined to party p and a publishes an
\* Update carrying its authenticated id, that Update reaches b: the forwarding
\* task b holds is alive and receives exactly that Update.
C4_UpdateReachesPeer ==
    [][\A a, b \in Sessions :
          ( /\ a # b
            /\ Joined(a) /\ pc[a] = "recv"
            /\ Joined(b) /\ rx_open[b]
            /\ party_id[a] = party_id[b]
            /\ party_tx[a] = party_tx[b]
            /\ Received(a, party_rx_task[a])
            /\ ReceivedMsg(a, party_rx_task[a]).type = "Update"
            /\ ReceivedMsg(a, party_rx_task[a]).src = a )
          => /\ tasks'[b][party_rx_task[b]].alive
             /\ Received(b, party_rx_task[b])
             /\ Wire(ReceivedMsg(b, party_rx_task[b]))
                   = Wire(ReceivedMsg(a, party_rx_task[a]))]_vars

\* C5: every message enqueued to a connection's outbound queue is a direct
\* reply to that connection or a broadcast published on the channel of the
\* party the connection is currently joined to.
C5_NoCrossPartyLeak ==
    [][\A s \in Sessions :
          Enqueued(s) =>
              \/ EnqueuedMsg(s).type = "Error" /\ EnqueuedMsg(s).src = s
              \/ EnqueuedMsg(s).chan = party_tx[s]]_vars

\* C6: at every instant a connection has at most one live forwarding task
\* holding a broadcast Receiver, whatever Connect messages it has sent.
C6_OneSubscriptionPerSession ==
    \A s \in Sessions :
        Cardinality({k \in 1..MaxConnects : tasks[s][k].alive}) <= 1

\* C7: after a connection joined to party p has completed a successful Connect
\* to another party, no message published on p's channel after the switch is
\* in its outbound queue.
C7_NoStaleAfterSwitch ==
    \A s \in Sessions :
        Joined(s) =>
            \A i \in 1..Len(outq[s]) :
                (outq[s][i].type # "Error" /\ outq[s][i].chan # party_tx[s])
                    => outq[s][i].held

\* C8: a Connect received while joined to party p first releases p (the
\* connection's subscription to p ends, and p's registry entry goes if this
\* was its last subscriber) and only then acquires the new party's channel.
C8_ReleaseBeforeAcquire ==
    [][\A s \in Sessions :
          (Joined(s) /\ pc[s] = "recv" /\ pc'[s] = "lookup")
          => /\ \A k \in 1..MaxConnects :
                    ~(tasks'[s][k].alive /\ tasks'[s][k].chan = party_tx[s])
             /\ (\A o \in Sessions \ {s} : ~SubscribedTo(o, party_tx[s]))
                    => party_channels'[ChanParty(party_tx[s])] # party_tx[s]]_vars

C10_OnlyMembersExchange ==
    [][\A s \in Sessions : \A k \in 1..MaxConnects :
          (Received(s, k) /\ ReceivedMsg(s, k).type = "Update")
          => /\ verify_user_in_party(ReceivedMsg(s, k).uid,
                                     ChanParty(ReceivedMsg(s, k).chan))
             /\ verify_user_in_party(authenticated_user_id[s],
                                     ChanParty(ReceivedMsg(s, k).chan))]_vars

\* the store holds party p and a user_party row of user u in it
IsMember(u, p) == p \in db_parties /\ <<u, p>> \in db_members

\* C11: a connection becomes subscribed to a party's channel only if, at its
\* Connect for that party, the store held the party and a membership row of
\* the connection's authenticated user; the handshake, with or without a party
\* id, subscribes nothing and leaves the registry alone.
C11_SubscribeOnlyAfterMembershipCheck ==
    [][/\ \A s \in Sessions :
            (pc[s] # "lookup" /\ pc'[s] = "lookup")
            => /\ pc[s] = "recv"
               /\ IsMember(authenticated_user_id[s], party_id'[s])
               /\ ChanParty(party_tx'[s]) = party_id'[s]
               /\ party_channels'[party_id'[s]] = party_tx'[s]
       /\ \A s \in Sessions : \A k \in 1..MaxConnects :
            (~tasks[s][k].alive /\ tasks'[s][k].alive)
            => /\ pc[s] = "lookup"
               /\ tasks'[s][k].chan = party_tx[s]
               /\ ChanParty(party_tx[s]) = party_id[s]
       /\ \A s \in Sessions :
            (pc[s] \in {"idle", "unauthorized", "forbidden"} /\ pc'[s] # pc[s])
            => UNCHANGED <<party_channels, user_parties, tasks, party_id,
                           party_tx, party_rx_task, joins>>]_vars

\* one connection is subscribed to the channel of its party after a Connect,
\* another has passed the handshake and is subscribed to nothing
C11_Witness ==
    \E s, o \in Sessions :
        /\ s # o
        /\ Joined(s) /\ SubscribedTo(s, party_tx[s])
        /\ IsMember(authenticated_user_id[s], party_id[s])
        /\ pc[o] = "recv" /\ joins[o] = 0
        /\ \A k \in 1..MaxConnects : ~tasks[o][k].alive

\* C12: a handshake that fails (token rejected: unauthorized; party id given
\* and the user no member of it or the party missing: forbidden) creates no
\* connection state and leaves the registry and the index unchanged; a
\* connection is set up only when every supplied check passed.
C12_FailedHandshakeNoSession ==
    [][\A s \in Sessions : \A token \in Users \cup {BadToken} :
       \A qpid \in Parties \cup {None} :
          ws_handler(s, token, qpid)
          => /\ UNCHANGED <<party_channels, user_parties, tasks, outq, party_id,
                            party_tx, party_rx_task, joins, updates>>
             /\ token = BadToken
                   => /\ pc'[s] = "unauthorized"
                      /\ ~rx_open'[s]
                      /\ authenticated_user_id'[s] = None
             /\ (token # BadToken /\ qpid # None /\ ~IsMember(token, qpid))
                   => /\ pc'[s] = "forbidden"
                      /\ ~rx_open'[s]
                      /\ authenticated_user_id'[s] = None
             /\ pc'[s] = "recv"
                   => /\ token \in Users
                      /\ qpid # None => IsMember(token, qpid)
                      /\ authenticated_user_id'[s] = token
                      /\ rx_open'[s]]_vars

\* a handshake was refused as forbidden while another connection is joined:
\* the refused one has no connection state
C12_Witness ==
    \E s, o \in Sessions :
        /\ s # o
        /\ pc[s] = "forbidden"
        /\ ~rx_open[s] /\ authenticated_user_id[s] = None
        /\ Joined(o) /\ party_channels[party_id[o]] # NoChan

\* C13: a Connect whose party fails the membership check produces an error
\* reply and does not move the connection: it keeps its recorded party id and
\* its subscription, stays open, and the registry is unchanged.
C13_FailedConnectKeepsState ==
    [][/\ \A s \in Sessions :
            (pc[s] = "recv" /\ pc'[s] = "reply_break")
            => /\ party_id'[s] = party_id[s]
               /\ party_tx'[s] = party_tx[s]
               /\ UNCHANGED <<party_channels, tasks>>
       /\ \A s \in Sessions :
            (pc[s] = "reply_break" /\ pc'[s] # "reply_break")
            => /\ pc'[s] = "recv"
               /\ rx_open[s] => (Enqueued(s) /\ EnqueuedMsg(s) = ErrorMsg(s, 2))
               /\ party_id'[s] = party_id[s]
               /\ party_tx'[s] = party_tx[s]
               /\ party_rx_task'[s] = party_rx_task[s]
               /\ UNCHANGED <<party_channels, tasks>>]_vars

\* C14: a Connect whose user_id is not the connection's authenticated id
\* enqueues an error reply and changes nothing else: no registry or index
\* entry is made or removed, nothing is published, the connection stays open
\* in the state it had.
C14_MismatchedConnectOnlyReplies ==
    [][/\ \A s \in Sessions : \A uid \in Users : \A pid \in Parties :
            (uid # authenticated_user_id[s] /\ Connect(s, uid, pid))
            => /\ pc' = [pc EXCEPT ![s] = "reply_continue"]
               /\ UNCHANGED <<dbVars, lockVars, env_budget, party_channels, user_parties,
                              authenticated_user_id, party_id, party_tx,
                              party_rx_task, joins, tasks, outq, rx_open, updates>>
       /\ \A s \in Sessions :
            (pc[s] = "reply_continue" /\ pc'[s] # "reply_continue")
            => /\ pc' = [pc EXCEPT ![s] = "recv"]
               /\ outq' = [outq EXCEPT ![s] = Append(@, ErrorMsg(s, 1))]
               /\ UNCHANGED <<dbVars, lockVars, env_budget, party_channels, user_parties,
                              authenticated_user_id, party_id, party_tx,
                              party_rx_task, joins, tasks, rx_open, updates>>]_vars

\* C15: an Update whose state.user_id is not the connection's authenticated id
\* is dropped: nothing is published, nothing is replied, no state changes and
\* the connection stays open; every Update a Receiver gets carries the
\* authenticated id of the connection that published it.
C15_ForeignUpdateDropped ==
    [][/\ \A s \in Sessions : \A uid \in Users :
            (uid # authenticated_user_id[s] /\ Update(s, uid)) => UNCHANGED vars
       /\ \A s \in Sessions : \A k \in 1..MaxConnects :
            (Received(s, k) /\ ReceivedMsg(s, k).type = "Update")
            => ReceivedMsg(s, k).uid
                   = authenticated_user_id[ReceivedMsg(s, k).src]]_vars

\* a joined connection stands in its inbound loop with another connection
\* subscribed to its channel and able to take a message: a foreign Update sent
\* now would be seen if it were published
C15_Witness ==
    \E s, o \in Sessions :
        /\ s # o
        /\ Joined(s) /\ pc[s] = "recv"
        /\ authenticated_user_id[s] # authenticated_user_id[o]
        /\ updates < MaxUpdates
        /\ \E k \in 1..MaxConnects :
              /\ tasks[o][k].alive
              /\ tasks[o][k].chan = party_tx[s]
              /\ tasks[o][k].buf = <<>>

\* C16: for a connection that has never completed a Connect, an Update leaves
\* the registry and the index unchanged and publishes nothing, and no
\* broadcast is ever enqueued to that connection's outbound queue.
C16_UpdateBeforeConnectNoEffect ==
    [][/\ \A s \in Sessions : \A uid \in Users :
            (joins[s] = 0 /\ pc[s] = "recv" /\ Update(s, uid)) => UNCHANGED vars
       /\ \A s \in Sessions :
            (joins[s] = 0 /\ Enqueued(s)) => EnqueuedMsg(s).type = "Error"]_vars

\* a connection that never completed a Connect stands in its inbound loop
\* while a party its user is a member of has a channel with a subscriber
C16_Witness ==
    \E s, o \in Sessions :
        /\ s # o
        /\ pc[s] = "recv" /\ joins[s] = 0 /\ party_id[s] = None
        /\ outq[s] = <<>>
        /\ Joined(o) /\ SubscribedTo(o, party_tx[o])
        /\ IsMember(authenticated_user_id[s], party_id[o])
        /\ party_channels[party_id[o]] = party_tx[o]
        /\ updates < MaxUpdates

\* the forwarding task connection s holds in party_rx_task is running
CurrentTaskAlive(s) ==
    party_rx_task[s] # None /\ tasks[s][party_rx_task[s]].alive

\* the Disconnect notification the cleanup of connection s publishes
DisconnectMsg(s) ==
    Msg("Disconnect", authenticated_user_id[s], s, party_tx[s], 0)

C18_DisconnectReachesPeers ==
    [][\A s \in Sessions :
          (Joined(s) /\ pc[s] = "recv" /\ Disconnect(s, authenticated_user_id[s]))
          => \A o \in Sessions \ {s} : \A k \in 1..MaxConnects :
                (Live(o) /\ tasks[o][k].alive /\ tasks[o][k].chan = party_tx[s])
                => /\ Received(o, k)
                   /\ Wire(ReceivedMsg(o, k)) = Wire(DisconnectMsg(s))
                   /\ ~tasks'[o][k].lagged]_vars

\* C19: a transport close on a joined connection runs the cleanup of an
\* explicit Disconnect: the Disconnect notification is published on the
\* connection's channel, the forwarding task it holds is stopped, and so is
\* the outbound loop.
C19_TransportCloseRunsCleanup ==
    [][\A s \in Sessions :
          /\ TransportClose(s) <=> Disconnect(s, authenticated_user_id[s])
          /\ (Joined(s) /\ pc[s] = "recv" /\ TransportClose(s))
             => /\ pc'[s] \in {"closed", "remove"}
                /\ \A o \in Sessions \ {s} : \A k \in 1..MaxConnects :
                      ( /\ tasks[o][k].alive
                        /\ tasks[o][k].chan = party_tx[s]
                        /\ Len(tasks[o][k].buf) < BcastCap )
                      => /\ Received(o, k)
                         /\ Wire(ReceivedMsg(o, k)) = Wire(DisconnectMsg(s))
          /\ (pc[s] \in {"recv", "remove"} /\ pc'[s] = "closed")
             => /\ party_rx_task[s] # None => ~tasks'[s][party_rx_task[s]].alive
                /\ ~rx_open'[s]
                /\ outq'[s] = <<>>
                /\ party_tx'[s] = NoChan]_vars

\* a joined connection has terminated without aborted tasks left, and another
\* connection on the channel holds its Disconnect notification in its
\* outbound queue
C19_Witness ==
    \E s, o \in Sessions :
        /\ s # o
        /\ pc[s] = "closed" /\ joins[s] >= 1 /\ ~rx_open[s]
        /\ \A k \in 1..MaxConnects : ~tasks[s][k].alive
        /\ Joined(o)
        /\ \E i \in 1..Len(outq[o]) :
              /\ outq[o][i].type = "Disconnect"
              /\ outq[o][i].src = s
              /\ outq[o][i].chan = party_tx[o]

\* C20: a connection whose outbound queue is closed (failed socket write, the
\* outbound loop ended) treats this as fatal: the next thing its handler does
\* is the cleanup; it does not go on handling Connect and Update messages as
\* an open, joined connection.
C20_ClosedQueueIsFatal ==
    [][\A s \in Sessions :
          (pc[s] = "recv" /\ ~rx_open[s])
          => /\ pc'[s] \in {"recv", "closed", "remove"}
             /\ \A uid \in Users : Update(s, uid) => UNCHANGED vars]_vars

\* C21: after a connection's handler has returned, no forwarding task that the
\* connection ever spawned is alive (none still holds a Receiver of a party
\* channel), the tasks of its earlier Connects included.
C21_NoTaskSurvivesSession ==
    \A s \in Sessions :
        pc[s] = "closed" =>
            \A k \in 1..MaxConnects : ~tasks[s][k].alive

\* this step is (part of) the termination of connection s, which held a channel
Leaves(s) ==
    /\ party_tx[s] # NoChan
    /\ pc[s] \in {"recv", "reply_break", "remove"}
    /\ pc'[s] \in {"remove", "closed"}
    /\ pc'[s] # pc[s]

\* C22: when connection A terminates (Disconnect, a failed Connect's break or
\* transport close) while connection B is Joined to the same party with its
\* forwarding task running, B is left as it was: its handler state is
\* unchanged, its forwarding task still runs on the same channel and has lost
\* nothing of what it held, the party's registry entry is unchanged, and B's
\* Receiver, when on A's channel with room, has taken A's notification.
C22_LeaverLeavesPeerAlone ==
    [][\A s \in Sessions : \A o \in Sessions \ {s} :
          ( /\ Leaves(s)
            /\ Joined(o)
            /\ ChanParty(party_tx[o]) = ChanParty(party_tx[s])
            /\ tasks[o][party_rx_task[o]].alive )
          => LET k == party_rx_task[o]
             IN  /\ pc'[o] = pc[o]
                 /\ party_id'[o] = party_id[o]
                 /\ party_tx'[o] = party_tx[o]
                 /\ party_rx_task'[o] = k
                 /\ outq'[o] = outq[o]
                 /\ rx_open'[o] = rx_open[o]
                 /\ tasks'[o][k].alive
                 /\ tasks'[o][k].chan = tasks[o][k].chan
                 /\ SubSeq(tasks'[o][k].buf, 1, Len(tasks[o][k].buf)) = tasks[o][k].buf
                 /\ party_channels'[party_id[o]] = party_channels[party_id[o]]
                 /\ ( /\ pc[s] # "remove"
                      /\ tasks[o][k].chan = party_tx[s]
                      /\ Len(tasks[o][k].buf) < BcastCap )
                    => ( /\ Received(o, k)
                         /\ Wire(ReceivedMsg(o, k)) =
                               [type |-> "Disconnect",
                                uid |-> authenticated_user_id[s], n |-> 0] )
      ]_vars

\* C23: the step that completes a successful Connect of connection s publishes
\* exactly one NewPartyMember carrying s's user id on the joined party's
\* channel: the Receiver of every running connection's current forwarding task
\* on that channel takes exactly that one message in the step.
C23_JoinNotifiesSubscribers ==
    [][\A s \in Sessions : \A o \in Sessions \ {s} : \A k \in 1..MaxConnects :
          ( /\ ConnectJoin(s)
            /\ Live(o)
            /\ party_rx_task[o] = k
            /\ tasks[o][k].alive
            /\ tasks[o][k].chan = party_tx[s] )
          => /\ Len(tasks'[o][k].buf) = Len(tasks[o][k].buf) + 1
             /\ Wire(ReceivedMsg(o, k)) =
                   [type |-> "NewPartyMember",
                    uid |-> authenticated_user_id[s], n |-> 0]
      ]_vars

\* connection o holds a running subscription in forwarding task k
Subscribed(o, k) ==
    /\ Live(o)
    /\ party_rx_task[o] = k
    /\ tasks[o][k].alive

\* C24: messages reach the outbound stream of a connection that stays
\* subscribed in the order published, none lost: a message published on a
\* channel is appended to the Receiver of every running subscription of that
\* channel (all subscribers get one and the same message), the forwarding
\* task moves the oldest message of its Receiver to the end of the outbound
\* queue, and the socket write takes the oldest message of the queue.
C24_PublishedInOrderNoneLost ==
    [][/\ \A p \in Sessions : \A q \in 1..MaxConnects :
            \A o \in Sessions : \A k \in 1..MaxConnects :
                ( /\ Received(p, q)
                  /\ Subscribed(o, k)
                  /\ Subscribed(o, k)'
                  /\ tasks[o][k].chan = tasks[p][q].chan )
                => /\ Received(o, k)
                   /\ tasks'[o][k].buf = Append(tasks[o][k].buf, ReceivedMsg(o, k))
                   /\ Wire(ReceivedMsg(o, k)) = Wire(ReceivedMsg(p, q))
       /\ \A o \in Sessions : \A k \in 1..MaxConnects :
            ( /\ Subscribed(o, k)
              /\ Subscribed(o, k)'
              /\ Len(tasks'[o][k].buf) < Len(tasks[o][k].buf) )
            => /\ tasks'[o][k].alive
               /\ tasks'[o][k].buf = Tail(tasks[o][k].buf)
               /\ outq'[o] = Append(outq[o], Head(tasks[o][k].buf))
       /\ \A o \in Sessions :
            (Live(o) /\ Len(outq'[o]) < Len(outq[o]) /\ rx_open'[o])
            => outq'[o] = Tail(outq[o])
      ]_vars

\* C25: the authenticated user id of a connection never changes once the
\* handshake has set it, and every message a Receiver takes (NewPartyMember,
\* Update or Disconnect) carries the authenticated id of the connection that
\* published it, before and after the step.
C25_PublishedUnderOwnIdentity ==
    [][/\ \A s \in Sessions :
            authenticated_user_id[s] # None
            => authenticated_user_id'[s] = authenticated_user_id[s]
       /\ \A o \in Sessions : \A k \in 1..MaxConnects :
            Received(o, k)
            => LET m == ReceivedMsg(o, k)
               IN  /\ m.type \in {"NewPartyMember", "Update", "Disconnect"}
                   /\ m.uid # None
                   /\ m.uid = authenticated_user_id[m.src]
                   /\ m.uid = authenticated_user_id'[m.src]
      ]_vars

\* a connection holds a NewPartyMember and an Update that another user's
\* connection published, both under that connection's authenticated id
C25_Witness ==
    \E o \in Sessions : \E s \in Sessions \ {o} : \E k \in 1..MaxConnects :
        /\ authenticated_user_id[o] # authenticated_user_id[s]
        /\ outq[o] # <<>>
        /\ tasks[o][k].buf # <<>>
        /\ Head(outq[o]).type = "NewPartyMember"
        /\ Head(outq[o]).src = s
        /\ Head(outq[o]).uid = authenticated_user_id[s]
        /\ Head(tasks[o][k].buf).type = "Update"
        /\ Head(tasks[o][k].buf).src = s
        /\ Head(tasks[o][k].buf).uid = authenticated_user_id[s]

\* C26: an inbound message the router ignores (NewPartyMember, an unparseable
\* payload, a Disconnect carrying another user's id) changes nothing: handler
\* state, registry, index, Receivers and outbound queues are as before, so
\* nothing is published or replied and the connection stays in its inbound
\* loop.
C26_IgnoredIsNoOp ==
    [][\A s \in Sessions :
          /\ Ignored(s) => (UNCHANGED vars /\ pc'[s] = "recv")
          /\ \A uid \in Users :
                (uid # authenticated_user_id[s] /\ Disconnect(s, uid))
                => (UNCHANGED vars /\ pc'[s] = "recv")
      ]_vars

\* a joined connection stands in its inbound loop, its user is in the index and
\* another user's connection is subscribed to its channel with room: a
\* Disconnect acted upon now would be seen in all three
C26_Witness ==
    \E s \in Sessions : \E o \in Sessions \ {s} :
        /\ Joined(s) /\ pc[s] = "recv"
        /\ user_parties[authenticated_user_id[s]] = party_id[s]
        /\ authenticated_user_id[o] \in Users \ {authenticated_user_id[s]}
        /\ party_rx_task[o] # None
        /\ tasks[o][party_rx_task[o]].alive
        /\ tasks[o][party_rx_task[o]].chan = party_tx[s]
        /\ tasks[o][party_rx_task[o]].buf = <<>>
        /\ outq[s] = <<>>

\* C27: once a connection that completed a Connect has terminated, the
\* user-party index holds no entry for its user, unless another connection of
\* that user is still running.
C27_IndexClearedAfterTermination ==
    \A s \in Sessions :
        ( /\ pc[s] = "closed"
          /\ joins[s] > 0
          /\ \A o \in Sessions \ {s} :
                authenticated_user_id[o] = authenticated_user_id[s] => ~Live(o) )
        => user_parties[authenticated_user_id[s]] = None

\* C28: the cleanup's emptiness check and its removal of the registry entry are
\* one atomic step for every other connection: while connection s stands
\* between the check and the removal of party p's entry, no other connection's
\* get-or-create obtains party p's channel from the registry.
C28_CheckAndRemoveAtomic ==
    [][\A s \in Sessions : \A o \in Sessions \ {s} : \A pid \in Parties :
          ( /\ pc[s] = "remove"
            /\ party_id[s] = pid )
          => ~( /\ Connect(o, authenticated_user_id[o], pid)
                /\ pc'[o] = "lookup"
                /\ party_tx'[o] = party_channels[pid] )
      ]_vars

\* C29: whenever a connection holds a channel handle in party_tx, its party_id
\* is the party that channel was created for, so the registry entry its cleanup
\* examines is the entry of the party whose channel it held.
C29_PartyIdMatchesChannel ==
    \A s \in Sessions :
        party_tx[s] # NoChan => party_id[s] = ChanParty(party_tx[s])

\* C30: while a connection is open and Joined, the forwarding task it holds in
\* party_rx_task is running and subscribed to the connection's channel.
C30_JoinedKeepsForwarding ==
    \A s \in Sessions :
        Joined(s) =>
            /\ tasks[s][party_rx_task[s]].alive
            /\ tasks[s][party_rx_task[s]].chan = party_tx[s]

\* C31: the error reply of a refused Connect reaches the socket: the step that
\* ends a connection's handler (the cleanup with send_task.abort()) finds no
\* error reply still waiting in the outbound queue, and the reply of a failed
\* membership check, enqueued on the way into the cleanup, is in the queue
\* after that step for send_task to write.
C31_TeardownKeepsReplies ==
    [][\A s \in Sessions :
          (Live(s) /\ rx_open[s] /\ pc'[s] = "closed")
          => /\ \A i \in 1..Len(outq[s]) : outq[s][i].type # "Error"
             /\ pc[s] = "reply_break"
                => \E i \in 1..Len(outq'[s]) : outq'[s][i] = ErrorMsg(s, 2)
      ]_vars

\* C32: after the display-name lookup of a Connect has failed, the connection's
\* cleanup has taken effect: the index holds no entry for its user (unless
\* another connection of that user is running) and no registry entry that one
\* of its Connects created is left without a subscriber.
C32_FailedLookupCleansUp ==
    \A s \in Sessions :
        pc[s] = "panicked" =>
            /\ (\A o \in Sessions \ {s} :
                    authenticated_user_id[o] = authenticated_user_id[s] => ~Live(o))
               => user_parties[authenticated_user_id[s]] = None
            /\ \A p \in Parties :
                  (party_channels[p] # NoChan /\ party_channels[p][2] = s)
                  => ReceiverCount(tasks, party_channels[p]) > 0

\* what identifies a published message, whichever Receiver holds the copy
Published(m) == [type |-> m.type, uid |-> m.uid, src |-> m.src, chan |-> m.chan, n |-> m.n]

\* the copies of published message m on their way to the client of connection
\* o: in its outbound queue and in the Receivers of its forwarding tasks
Copies(o, m) ==
    Cardinality({i \in 1..Len(outq[o]) : Published(outq[o][i]) = m})
    + Cardinality({t \in (1..MaxConnects) \X (1..BcastCap) :
                      /\ t[2] <= Len(tasks[o][t[1]].buf)
                      /\ Published(tasks[o][t[1]].buf[t[2]]) = m})

\* C33: a message published once (an Update, or the Disconnect of a leaving
\* connection) is on its way to any one connection's client at most once: the
\* connection's outbound queue and the Receivers of its forwarding tasks hold
\* at most one copy of it between them.
C33_EnqueuedAtMostOnce ==
    \A o \in Sessions : \A k \in 1..MaxConnects :
        \A i \in 1..Len(tasks[o][k].buf) :
            tasks[o][k].buf[i].type \in {"Update", "Disconnect"}
            => Copies(o, Published(tasks[o][k].buf[i])) <= 1

\* three connections in an undisturbed environment, with Update: a publisher,
\* a slow client and a third subscriber, all of party 1, which every user is
\* a member of (every handshake succeeds, every socket write succeeds, a
\* connection ends by transport close)
NextSlow ==
    \/ \E s \in Sessions : ws_handler(s, UserOf(s), None)
    \/ \E s \in Sessions, uid \in Users : Connect(s, uid, 1)
    \/ \E s \in Sessions : ConnectJoin(s)
    \/ \E s \in Sessions : ReplyEnqueue(s)
    \/ \E s \in Sessions : Update(s, authenticated_user_id[s])
    \/ \E s \in Sessions : TransportClose(s)
    \/ \E s \in Sessions : CleanupRemove(s)
    \/ \E s \in Sessions, k \in 1..MaxConnects : ForwardTask(s, k)
    \/ \E s \in Sessions : SendTask(s, TRUE)

SpecSlow == InitRace /\ [][NextSlow]_vars

\* connection a is joined and in its inbound loop while connection b, subscribed
\* to the same channel, has a full outbound queue
SlowPeer(a, b) ==
    /\ a # b
    /\ Joined(a) /\ pc[a] = "recv"
    /\ Live(b)
    /\ SubscribedTo(b, party_tx[a])
    /\ rx_open[b]
    /\ Len(outq[b]) = OutCap

\* C35: publishing does not wait for other connections: while a subscriber of
\* its channel has a full outbound queue, a joined connection can publish an
\* Update; doing so leaves it in its inbound loop and the slow connection's
\* queue as it was, and the Receiver of every running subscription of the
\* channel that has room takes the Update.
C35_PublishDoesNotBlockOnPeers ==
    [][\A a \in Sessions : \A b \in Sessions :
          SlowPeer(a, b) =>
            /\ updates < MaxUpdates
               => ENABLED Update(a, authenticated_user_id[a])
            /\ (Update(a, authenticated_user_id[a]) /\ updates' = updates + 1)
               => /\ pc'[a] = "recv"
                  /\ outq'[b] = outq[b]
                  /\ \A c \in Sessions : \A k \in 1..MaxConnects :
                        ( /\ Subscribed(c, k)
                          /\ tasks[c][k].chan = party_tx[a]
                          /\ Len(tasks[c][k].buf) < BcastCap )
                        => /\ Received(c, k)
                           /\ Wire(ReceivedMsg(c, k)) =
                                 [type |-> "Update",
                                  uid |-> authenticated_user_id[a],
                                  n |-> updates + 1]
      ]_vars

\* connection a has published an Update while connection b's outbound queue
\* was and is full, and a third connection's Receiver holds that Update
C35_Witness ==
    \E a \in Sessions : \E b \in Sessions \ {a} : \E c \in Sessions \ {a, b} :
        /\ SlowPeer(a, b)
        /\ Head(outq[b]).type # "Update"
        /\ Joined(c)
        /\ tasks[c][party_rx_task[c]].alive
        /\ tasks[c][party_rx_task[c]].chan = party_tx[a]
        /\ tasks[c][party_rx_task[c]].buf # <<>>
        /\ Head(tasks[c][party_rx_task[c]].buf).type = "Update"
        /\ Head(tasks[c][party_rx_task[c]].buf).src = a

\* ------------------------------------------------------- lock protocol
\* handle_socket once more, one step per lock acquisition, critical section
\* and suspension point.  std::sync::Mutex::lock() waits while the mutex is
\* held, by whomever; try_lock() does not wait; a guard is released at the end
\* of its scope or by drop().

\* the joins that have passed the membership check and not yet subscribed
JoinsInProgress ==
    Cardinality({s \in Sessions :
        pc[s] \in {"index_wait", "index_held", "registry_wait", "registry_held"}})

\* Connect, lines 154-179 and 228-234: the identity check, party_id =
\* Some(pid), the membership check (an await, no lock held)
ConnectCheck(s, uid, pid) ==
    /\ pc[s] = "recv"
    /\ IF uid # authenticated_user_id[s]
       THEN /\ pc' = [pc EXCEPT ![s] = "reply_continue"]
            /\ UNCHANGED party_id
       ELSE /\ party_id' = [party_id EXCEPT ![s] = pid]
            /\ IF verify_user_in_party(uid, pid)
               THEN /\ joins[s] < MaxConnects
                    /\ JoinsStarted + JoinsInProgress < MaxJoins
                    /\ pc' = [pc EXCEPT ![s] = "index_wait"]
               ELSE pc' = [pc EXCEPT ![s] = "reply_break"]
    /\ UNCHANGED <<dbVars, lockVars, env_budget, party_channels, user_parties,
                   authenticated_user_id, party_tx, party_rx_task, joins,
                   tasks, outq, rx_open, updates>>

\* line 182: user_parties.lock()
IndexLock(s) ==
    /\ pc[s] = "index_wait"
    /\ user_parties_lock = None
    /\ user_parties_lock' = s
    /\ pc' = [pc EXCEPT ![s] = "index_held"]
    /\ UNCHANGED <<dbVars, env_budget, party_channels_lock, party_channels,
                   user_parties, authenticated_user_id, party_id, party_tx,
                   party_rx_task, joins, tasks, outq, rx_open, updates>>

\* lines 183-184: the insert, and the guard dropped at the end of the block
IndexInsert(s) ==
    /\ pc[s] = "index_held"
    /\ user_parties' = [user_parties EXCEPT ![authenticated_user_id[s]] = party_id[s]]
    /\ user_parties_lock' = None
    /\ pc' = [pc EXCEPT ![s] = "registry_wait"]
    /\ UNCHANGED <<dbVars, env_budget, party_channels_lock, party_channels,
                   authenticated_user_id, party_id, party_tx, party_rx_task,
                   joins, tasks, outq, rx_open, updates>>

\* line 188: party_channels.lock()
RegistryLock(s) ==
    /\ pc[s] = "registry_wait"
    /\ party_channels_lock = None
    /\ party_channels_lock' = s
    /\ pc' = [pc EXCEPT ![s] = "registry_held"]
    /\ UNCHANGED <<dbVars, env_budget, user_parties_lock, party_channels,
                   user_parties, authenticated_user_id, party_id, party_tx,
                   party_rx_task, joins, tasks, outq, rx_open, updates>>

\* lines 189-195: get-or-create, party_tx = the entry's Sender, and the guard
\* dropped at the end of the block; then the await of User::find_by_id
RegistryGetOrCreate(s) ==
    /\ pc[s] = "registry_held"
    /\ LET pid == party_id[s]
           ch == IF party_channels[pid] = NoChan
                 THEN <<pid, s, joins[s] + 1>>
                 ELSE party_channels[pid]
       IN  /\ party_channels' = [party_channels EXCEPT ![pid] = ch]
           /\ party_tx' = [party_tx EXCEPT ![s] = ch]
    /\ party_channels_lock' = None
    /\ pc' = [pc EXCEPT ![s] = "lookup"]
    /\ UNCHANGED <<dbVars, env_budget, user_parties_lock, user_parties,
                   authenticated_user_id, party_id, party_rx_task, joins,
                   tasks, outq, rx_open, updates>>

\* lines 160-173: the mismatch reply, then continue
ReplyContinue(s) ==
    /\ pc[s] = "reply_continue"
    /\ ReplyEnqueue(s)

\* lines 235-238: the not-a-member reply (tx.send().await waits while the
\* queue is full), then break
ReplyBreak(s) ==
    /\ pc[s] = "reply_break"
    /\ ~rx_open[s] \/ Len(outq[s]) < OutCap
    /\ outq' = [outq EXCEPT ![s] =
                   IF rx_open[s] THEN Append(@, ErrorMsg(s, 2)) ELSE @]
    /\ pc' = [pc EXCEPT ![s] = "cleanup_index"]
    /\ UNCHANGED <<dbVars, lockVars, env_budget, party_channels, user_parties,
                   authenticated_user_id, party_id, party_tx, party_rx_task,
                   joins, tasks, rx_open, updates>>

\* the inbound loop ends: Disconnect with the authenticated id (try_lock and
\* remove, lines 269-275, when byMessage) or the transport closing; try_lock
\* gives up at once when the mutex is held
LoopEnd(s, byMessage) ==
    /\ pc[s] = "recv"
    /\ user_parties' =
          IF byMessage /\ user_parties_lock = None
          THEN [user_parties EXCEPT ![authenticated_user_id[s]] = None]
          ELSE user_parties
    /\ pc' = [pc EXCEPT ![s] = "cleanup_index"]
    /\ UNCHANGED <<dbVars, lockVars, env_budget, party_channels,
                   authenticated_user_id, party_id, party_tx, party_rx_task,
                   joins, tasks, outq, rx_open, updates>>

\* lines 287-300: try_lock and remove, then the Disconnect notification
CleanupTryLock(s) ==
    /\ pc[s] = "cleanup_index"
    /\ user_parties' =
          IF user_parties_lock = None
          THEN [user_parties EXCEPT ![authenticated_user_id[s]] = None]
          ELSE user_parties
    /\ IF party_id[s] # None /\ party_tx[s] # NoChan
       THEN /\ tasks' = BroadcastSend(tasks, party_tx[s],
                           Msg("Disconnect", authenticated_user_id[s], s, party_tx[s], 0))
            /\ pc' = [pc EXCEPT ![s] = "cleanup_registry_wait"]
       ELSE /\ pc' = [pc EXCEPT ![s] = "cleanup_abort"]
            /\ UNCHANGED tasks
    /\ UNCHANGED <<dbVars, lockVars, env_budget, party_channels,
                   authenticated_user_id, party_id, party_tx, party_rx_task,
                   joins, outq, rx_open, updates>>

\* line 304: party_channels.lock()
CleanupRegistryLock(s) ==
    /\ pc[s] = "cleanup_registry_wait"
    /\ party_channels_lock = None
    /\ party_channels_lock' = s
    /\ pc' = [pc EXCEPT ![s] = "cleanup_check"]
    /\ UNCHANGED <<dbVars, env_budget, user_parties_lock, party_channels,
                   user_parties, authenticated_user_id, party_id, party_tx,
                   party_rx_task, joins, tasks, outq, rx_open, updates>>

\* a cleanup that goes on to the second lock() without drop(party_channels_lock)
CleanupCheckKeepGuard(s) ==
    /\ pc[s] = "cleanup_check"
    /\ IF /\ party_channels[party_id[s]] # NoChan
          /\ ReceiverCount(tasks, party_channels[party_id[s]]) = 0
       THEN /\ UNCHANGED party_channels_lock
            /\ pc' = [pc EXCEPT ![s] = "cleanup_relock_wait"]
       ELSE /\ party_channels_lock' = None
            /\ pc' = [pc EXCEPT ![s] = "cleanup_abort"]
    /\ UNCHANGED <<dbVars, env_budget, user_parties_lock, party_channels,
                   user_parties, authenticated_user_id, party_id, party_tx,
                   party_rx_task, joins, tasks, outq, rx_open, updates>>

\* lines 305-307 and 310-312: the entry's receiver_count(); zero:
\* drop(party_channels_lock) and on to the second lock(); else the guard is
\* dropped at the end of the block
CleanupCheck(s) ==
    /\ pc[s] = "cleanup_check"
    /\ party_channels_lock' = None
    /\ IF /\ party_channels[party_id[s]] # NoChan
          /\ ReceiverCount(tasks, party_channels[party_id[s]]) = 0
       THEN pc' = [pc EXCEPT ![s] = "cleanup_relock_wait"]
       ELSE pc' = [pc EXCEPT ![s] = "cleanup_abort"]
    /\ UNCHANGED <<dbVars, env_budget, user_parties_lock, party_channels,
                   user_parties, authenticated_user_id, party_id, party_tx,
                   party_rx_task, joins, tasks, outq, rx_open, updates>>

\* line 308: the second party_channels.lock()
CleanupRelock(s) ==
    /\ pc[s] = "cleanup_relock_wait"
    /\ party_channels_lock = None
    /\ party_channels_lock' = s
    /\ pc' = [pc EXCEPT ![s] = "cleanup_remove"]
    /\ UNCHANGED <<dbVars, env_budget, user_parties_lock, party_channels,
                   user_parties, authenticated_user_id, party_id, party_tx,
                   party_rx_task, joins, tasks, outq, rx_open, updates>>

\* lines 309-310: the removal, and the second guard dropped
CleanupRemoveEntry(s) ==
    /\ pc[s] = "cleanup_remove"
    /\ party_channels' = [party_channels EXCEPT ![party_id[s]] = NoChan]
    /\ party_channels_lock' = None
    /\ pc' = [pc EXCEPT ![s] = "cleanup_abort"]
    /\ UNCHANGED <<dbVars, env_budget, user_parties_lock, user_parties,
                   authenticated_user_id, party_id, party_tx, party_rx_task,
                   joins, tasks, outq, rx_open, updates>>

\* lines 317-326: the two aborts, and the handler returns
CleanupAbort(s) ==
    /\ pc[s] = "cleanup_abort"
    /\ tasks' = AbortTask(tasks, s, party_rx_task[s])
    /\ party_id' = [party_id EXCEPT ![s] = None]
    /\ party_tx' = [party_tx EXCEPT ![s] = NoChan]
    /\ party_rx_task' = [party_rx_task EXCEPT ![s] = None]
    /\ outq' = [outq EXCEPT ![s] = <<>>]
    /\ rx_open' = [rx_open EXCEPT ![s] = FALSE]
    /\ pc' = [pc EXCEPT ![s] = "closed"]
    /\ UNCHANGED <<dbVars, lockVars, env_budget, party_channels, user_parties,
                   authenticated_user_id, joins, updates>>

\* the steps of connection s that take or give back a lock
LockStep(s) ==
    \/ IndexLock(s)
    \/ IndexInsert(s)
    \/ RegistryLock(s)
    \/ RegistryGetOrCreate(s)
    \/ CleanupRegistryLock(s)
    \/ CleanupCheck(s)
    \/ CleanupRelock(s)
    \/ CleanupRemoveEntry(s)

\* two connections of different users, in an undisturbed environment; the
\* forwarding tasks and send_task touch neither mutex and are left out
NextLock ==
    \/ \E s \in 1..NSessions : ws_handler(s, UserOf(s), None)
    \/ \E s \in Sessions, uid \in Users, pid \in Parties : ConnectCheck(s, uid, pid)
    \/ \E s \in Sessions : IndexLock(s)
    \/ \E s \in Sessions : IndexInsert(s)
    \/ \E s \in Sessions : RegistryLock(s)
    \/ \E s \in Sessions : RegistryGetOrCreate(s)
    \/ \E s \in Sessions : ConnectJoin(s)
    \/ \E s \in Sessions : ReplyContinue(s)
    \/ \E s \in Sessions : ReplyBreak(s)
    \/ \E s \in Sessions, byMessage \in BOOLEAN : LoopEnd(s, byMessage)
    \/ \E s \in Sessions : CleanupTryLock(s)
    \/ \E s \in Sessions : CleanupRegistryLock(s)
    \/ \E s \in Sessions : CleanupCheck(s)
    \/ \E s \in Sessions : CleanupRelock(s)
    \/ \E s \in Sessions : CleanupRemoveEntry(s)
    \/ \E s \in Sessions : CleanupAbort(s)

\* the handler is a spawned task of the runtime: a step that takes or gives
\* back a lock runs on without waiting for a client or a queue, so it is taken
\* once it stays possible
SpecLock ==
    /\ InitRace
    /\ [][NextLock]_vars
    /\ \A s \in Sessions : WF_vars(LockStep(s))

\* connection s stands at a lock() of user_parties
WaitsForIndex(s) == pc[s] = "index_wait"

\* connection s stands at a lock() of party_channels
WaitsForRegistry(s) ==
    pc[s] \in {"registry_wait", "cleanup_registry_wait", "cleanup_relock_wait"}

\* connection s stands at an await: the inbound loop, the membership check, the
\* display-name lookup, tx.send()
Suspended(s) ==
    pc[s] \in {"recv", "lookup", "reply_continue", "reply_break"}

\* no connection waits for a lock it holds or while holding the other lock, and
\* none holds a lock at an await or after its handler has ended
LockDiscipline ==
    \A s \in Sessions :
        /\ (WaitsForIndex(s) \/ WaitsForRegistry(s) \/ Suspended(s)
               \/ pc[s] \in {"idle", "closed", "panicked"})
           => (user_parties_lock # s /\ party_channels_lock # s)
        /\ user_parties_lock = s => party_channels_lock # s

\* C34: no connection ever waits for a lock it holds, waits for one lock while
\* holding the other, or holds a lock across an await; and every connection
\* standing at a lock() gets the lock.
C34_LocksNeverDeadlock ==
    /\ []LockDiscipline
    /\ \A s \in Sessions :
          (WaitsForIndex(s) \/ WaitsForRegistry(s))
              ~> ~(WaitsForIndex(s) \/ WaitsForRegistry(s))

\* a connection stands at the cleanup's second lock() of party_channels while
\* another connection holds that lock
C34_Witness ==
    \E s \in Sessions : \E o \in Sessions \ {s} :
        /\ pc[s] = "cleanup_relock_wait"
        /\ party_channels_lock = o

====
